---- MODULE Spec2Model ----
(***************************************************************************)
(* Model of grouper's in-memory membership graph (src/grouper/graph.py):   *)
(* GroupGraph.update_from_db, get_group_details and get_user_details, the  *)
(* database they read and the threads that call them.                      *)
(***************************************************************************)
EXTENDS Integers, Sequences, FiniteSets, TLC

\* ------------------------------------------------------------------------
\* Bounds
\* ------------------------------------------------------------------------
MaxTime == 1        \* the clock runs over 0..MaxTime
MaxCounter == 2     \* the "updates" counter is not incremented past this
MaxCutoff == 2      \* cutoffs passed to the queries: None, 0..MaxCutoff
MaxPlugins == 2     \* at most this many secret plugins are registered

\* ------------------------------------------------------------------------
\* Values
\* ------------------------------------------------------------------------
UserNames == {"u1"}
GroupNames == {"g1", "g2"}
UnknownName == "zz"             \* a name of no user and no group
Roles == {0, 1}                 \* indices into GROUP_EDGE_ROLES
NoExpiration == -1              \* GroupEdge.expiration is NULL
NoCutoff == -1                  \* cutoff=None
Refreshers == {"r1", "r2"}      \* threads calling update_from_db
Queriers == {"q1"}              \* threads calling the detail queries
Backgrounds == {"b1", "b2"}     \* BackgroundThreads, one per server
Threads == Refreshers \cup Queriers \cup Backgrounds
NoThread == "none"

Cutoffs == {NoCutoff} \cup (0..MaxCutoff)
Names == UserNames \cup GroupNames \cup {UnknownName}

UserNode(name) == <<"User", name>>
GroupNode(name) == <<"Group", name>>

\* GroupEdge.member_type: 0 is a user member, 1 a group member.
MemberKind(member_type) == IF member_type = 1 THEN "Group" ELSE "User"

\* Group.id of the group row named g: an integer in the code, so never equal
\* to a group name.
GroupId(g) == "id:" \o g

\* MEMBER_TYPE_MAP
MEMBER_TYPE_MAP(member_type) == IF member_type = "User" THEN "users" ELSE "subgroups"

\* ------------------------------------------------------------------------
\* The database read by the loader
\* ------------------------------------------------------------------------
EdgeRow(g, mt, m, r, a, e) ==
    [group |-> g, member_type |-> mt, member |-> m, role |-> r,
     active |-> a, expiration |-> e]

GrantRow(p, arg, g, t) ==
    [permission |-> p, argument |-> arg, group |-> g, granted_on |-> t]

NoCounterRow == [exists |-> FALSE, count |-> 0, last_modified |-> 0]

EmptyDb ==
    [users |-> {}, users_enabled |-> {}, groups |-> {}, groups_enabled |-> {},
     edges |-> {}, grants |-> {}, public_keys |-> {}, counter |-> NoCounterRow]

\* g2 contains g1 (role 0), g1 contains u1 (role 1, expiring at time 1);
\* the permission "ssh" is granted to g1.
SeedDb ==
    [users |-> {"u1"}, users_enabled |-> {"u1"},
     groups |-> {"g1", "g2"}, groups_enabled |-> {"g1", "g2"},
     edges |-> {EdgeRow("g2", 1, "g1", 0, TRUE, NoExpiration),
                EdgeRow("g1", 0, "u1", 1, TRUE, 1)},
     grants |-> {GrantRow("ssh", "*", "g1", 0)},
     public_keys |-> {[user |-> "u1", public_key |-> "k1", fingerprint |-> "f1",
                       created_on |-> 0]},
     counter |-> [exists |-> TRUE, count |-> 1, last_modified |-> 0]]

\* ------------------------------------------------------------------------
\* networkx.DiGraph
\* ------------------------------------------------------------------------
\* A graph is a set of nodes and a set of <<from, to, role>>; at most one
\* role per <<from, to>>.  none marks the Python value None.
NoneGraph == [none |-> TRUE, nodes |-> {}, edges |-> {}]

\* G[v]: the successors of v.
Adj(G, v) == {e[2] : e \in {x \in G.edges : x[1] = v}}

HasEdge(G, a, b) == \E e \in G.edges : e[1] = a /\ e[2] = b

\* G[a][b]["role"]
EdgeRole(G, a, b) == (CHOOSE e \in G.edges : e[1] = a /\ e[2] = b)[3]

\* Faulty variant of Reverse: a copy of the graph, no edge turned round.
Reverse_copy(G) == G

\* DiGraph.reverse(): a new graph, same nodes, every edge turned round.
Reverse(G) ==
    [none |-> FALSE, nodes |-> G.nodes,
     edges |-> {<<e[2], e[1], e[3]>> : e \in G.edges}]

\* DiGraph(); add_nodes_from(nodes); add_edges_from(edgelist).  add_edges_from
\* adds missing endpoints as nodes and, for a pair listed with several
\* roles, keeps the role listed last; the order of the rows of query.all()
\* is the database's, so every choice of one role per pair is possible.
PairsOf(edgelist) == {<<e[1], e[2]>> : e \in edgelist}

DiGraphs(nodes, edgelist) ==
    LET pairs == PairsOf(edgelist)
        rolesOf(p) == {e[3] : e \in {x \in edgelist : x[1] = p[1] /\ x[2] = p[2]}}
        picks == {f \in [pairs -> Roles] : \A p \in pairs : f[p] \in rolesOf(p)}
    IN  {[none |-> FALSE,
          nodes |-> nodes \cup {p[1] : p \in pairs} \cup {p[2] : p \in pairs},
          edges |-> {<<p[1], p[2], f[p]>> : p \in pairs}] : f \in picks}

\* ------------------------------------------------------------------------
\* The loader's reads (staticmethods of GroupGraph)
\* ------------------------------------------------------------------------
\* All orders in which the rows of a query can come back.
Orderings(S) ==
    {s \in [1..Cardinality(S) -> S] : \A i, j \in 1..Cardinality(S) : s[i] = s[j] => i = j}

\* (0, 0) when there is no "updates" counter, else (count, last_modified in
\* whole seconds); times are whole seconds throughout.
_get_checkpoint(d) ==
    IF ~d.counter.exists THEN <<0, 0>>
    ELSE <<d.counter.count, d.counter.last_modified>>

\* The User query is filtered by User.enabled before the union; the filter
\* Group.enabled == True follows the union's closing parenthesis, so it is
\* applied to the union as a whole: the groups table is joined to the union
\* and every row of the union (enabled users, all groups) is returned once
\* per enabled group, none when no group is enabled.
_get_nodes_from_db(d) ==
    LET unioned == {UserNode(u) : u \in d.users_enabled} \cup {GroupNode(g) : g \in d.groups}
    IN  IF d.groups_enabled = {} THEN {} ELSE unioned

\* Faulty variant of EdgeRowLoaded: the expiration is not looked at.
EdgeRowLoaded_unexpiring(d, t, r) ==
    /\ r.group \in d.groups
    /\ r.active
    /\ r.group \in d.groups_enabled
    /\ IF r.member_type = 1 THEN r.member \in d.groups_enabled
       ELSE r.member_type = 0 /\ r.member \in d.users_enabled

\* The rows of both member kinds that pass the filters, as the edge list
\* (("Group", groupname), (type, membername), {"role": role}).
EdgeRowLoaded(d, t, r) ==
    /\ r.group \in d.groups
    /\ r.active
    /\ r.group \in d.groups_enabled
    /\ IF r.member_type = 1 THEN r.member \in d.groups_enabled
       ELSE r.member_type = 0 /\ r.member \in d.users_enabled
    /\ (r.expiration > t \/ r.expiration = NoExpiration)

_get_edges_from_db(d, t) ==
    {<<GroupNode(r.group), <<MemberKind(r.member_type), r.member>>, r.role>> :
        r \in {x \in d.edges : EdgeRowLoaded(d, t, x)}}

\* username -> {"public_keys": [...]} for the enabled users, as a set of
\* <<username, keys>>.
_get_user_metadata(d) ==
    {<<u, {k \in d.public_keys : k.user = u}>> : u \in d.users_enabled}

MappedPermission(g) ==
    [permission |-> g.permission, argument |-> g.argument,
     groupname |-> g.group, granted_on |-> g.granted_on]

\* defaultdict(list) keyed by group NAME, as a set of <<key, list>>; a key
\* that is absent reads as the empty list (and is then inserted, see
\* DefaultDictTouch).  The lists follow the order of the rows.
_get_permissions_metadata(d) ==
    LET named == {g.group : g \in d.grants}
        mapped(n) == {MappedPermission(g) : g \in {x \in d.grants : x.group = n}}
        orders == UNION {Orderings(mapped(n)) : n \in named}
        picks == {f \in [named -> orders] : \A n \in named : f[n] \in Orderings(mapped(n))}
    IN  {{<<n, f[n]>> : n \in named} : f \in picks}

DictKeys(dict) == {kv[1] : kv \in dict}

\* defaultdict.__getitem__: the list under key, [] for a missing key ...
DefaultDictGet(dict, key) ==
    IF key \in DictKeys(dict) THEN (CHOOSE kv \in dict : kv[1] = key)[2] ELSE <<>>

\* ... which __getitem__ also stores under the missing key.
DefaultDictTouch(dict, keys) ==
    dict \cup {<<k, <<>>>> : k \in keys \ DictKeys(dict)}

\* groupname -> {"permissions": [...]} for the enabled groups.  The lookup
\* is permissions_metadata[group.id], while the dict is keyed by group name:
\* it finds nothing and inserts the id as a new key.  Yields the metadata
\* and the permissions_metadata as the lookups leave it.
_get_group_metadata(d, permissions_metadata) ==
    LET perms(g) == DefaultDictGet(permissions_metadata, GroupId(g))
        out == {<<g, [i \in 1..Len(perms(g)) |->
                        [permission |-> perms(g)[i].permission,
                         argument |-> perms(g)[i].argument]]>> : g \in d.groups_enabled}
    IN  [group_metadata |-> out,
         permissions_metadata |->
            DefaultDictTouch(permissions_metadata, {GroupId(g) : g \in d.groups_enabled})]

\* ------------------------------------------------------------------------
\* networkx.single_source_shortest_path (networkx 1.x, the Python 2 release
\* line this code runs on)
\* ------------------------------------------------------------------------
\* A paths dict is a set of <<node, path>>, path a sequence of nodes.
PathOf(paths, n) == (CHOOSE p \in paths : p[1] = n)[2]

\* The while loop from one level on.  Which of several equally short paths
\* is kept depends on dict iteration order: any predecessor in the current
\* level may be the one that discovers a node.
RECURSIVE BFS(_, _, _, _, _)

\* Faulty variant of BFS: a node reached again gets a second path, the test
\* "w not in paths" only keeps it out of the next level.
BFS_revisit(G, paths, thislevel, level, cutoff) ==
    IF thislevel = {} THEN {paths}
    ELSE LET found == {p[1] : p \in paths}
             reached == UNION {Adj(G, v) : v \in thislevel}
             new == reached \ found
             choices == {f \in [reached -> thislevel] : \A w \in reached : w \in Adj(G, f[w])}
             ext(f) == paths \cup {<<w, Append(PathOf(paths, f[w]), w)>> : w \in reached}
         IN  IF cutoff # NoCutoff /\ cutoff <= level + 1
             THEN {ext(f) : f \in choices}
             ELSE UNION {BFS(G, ext(f), new, level + 1, cutoff) : f \in choices}

BFS(G, paths, thislevel, level, cutoff) ==
    IF thislevel = {} THEN {paths}
    ELSE LET found == {p[1] : p \in paths}
             new == (UNION {Adj(G, v) : v \in thislevel}) \ found
             choices == {f \in [new -> thislevel] : \A w \in new : w \in Adj(G, f[w])}
             ext(f) == paths \cup {<<w, Append(PathOf(paths, f[w]), w)>> : w \in new}
         IN  IF cutoff # NoCutoff /\ cutoff <= level + 1
             THEN {ext(f) : f \in choices}
             ELSE UNION {BFS(G, ext(f), new, level + 1, cutoff) : f \in choices}

\* Faulty variant of single_source_shortest_path: the cutoff is not passed
\* on, the search always runs to the end.
single_source_shortest_path_nocutoff(G, source, cutoff) ==
    IF G.none THEN {[err |-> "TypeError", paths |-> {}]}
    ELSE IF source \notin G.nodes THEN {[err |-> "KeyError", paths |-> {}]}
    ELSE {[err |-> "ok", paths |-> p] :
            p \in BFS(G, {<<source, <<source>>>>}, {source}, 0, NoCutoff)}

\* The possible outcomes: err is "ok" with a paths dict, or the exception
\* raised.  With cutoff == 0 the function returns before it touches G; else
\* the first G[source] raises TypeError when G is None and KeyError when
\* source is not a node of G.
single_source_shortest_path(G, source, cutoff) ==
    IF cutoff = 0 THEN {[err |-> "ok", paths |-> {<<source, <<source>>>>}]}
    ELSE IF G.none THEN {[err |-> "TypeError", paths |-> {}]}
    ELSE IF source \notin G.nodes THEN {[err |-> "KeyError", paths |-> {}]}
    ELSE {[err |-> "ok", paths |-> p] :
            p \in BFS(G, {<<source, <<source>>>>}, {source}, 0, cutoff)}

\* ------------------------------------------------------------------------
\* State
\* ------------------------------------------------------------------------
VARIABLES
    db,      \* the database: tables and the "updates" counter
    now,     \* the clock, datetime.utcnow()
    store,   \* the fields of the GroupGraph object
    lock,    \* owner of GroupGraph.lock, NoThread when free
    pc,      \* position of every thread
    loc,     \* locals of each update_from_db call
    res,     \* per refresher: how its last call ended, whether it assigned a field
    qs,      \* locals and result of each query call
    ver,     \* per field a query reads: the load that assigned its current value
    mail,    \* the notifications issued so far, in order
    bloc,    \* locals of each BackgroundThread
    gauge,   \* the gauge "successful-background-run" of each server
    plugins, \* the registered secret plugins: what each get_secrets returns
    call     \* the secret function applied last, its argument and its result

vars == <<db, now, store, lock, pc, loc, res, qs, ver, mail, bloc, gauge, plugins, call>>

\* What the graph and its callers own, and what the background threads and
\* the secret functions own.
graphvars == <<store, lock, loc, res, qs, ver>>
bgvars == <<mail, bloc, gauge, plugins, call>>

\* GroupGraph.__init__
InitStore ==
    [_graph |-> NoneGraph, _rgraph |-> NoneGraph, users |-> {}, groups |-> {},
     checkpoint |-> 0, checkpoint_time |-> 0,
     user_metadata |-> {}, group_metadata |-> {}, permissions_metadata |-> {}]

\* What _get_edges_from_db reads of the database.
EdgeView(d) ==
    [edges |-> d.edges, groups_enabled |-> d.groups_enabled,
     users_enabled |-> d.users_enabled]

\* The locals of update_from_db before anything is read; edges_db and
\* edges_now record what _get_edges_from_db saw.
InitLoc ==
    [checkpoint |-> 0, checkpoint_time |-> 0, nodes |-> {},
     new_graph |-> NoneGraph, rgraph |-> NoneGraph, users |-> {}, groups |-> {},
     user_metadata |-> {}, group_metadata |-> {}, permissions_metadata |-> {},
     edges_db |-> EdgeView(EmptyDb), edges_now |-> 0]

\* called_at: the time at which the call began.  alone_at: the value of the
\* counter when the call began if no other call was under way then, else -1.
InitRes == [outcome |-> "none", wrote |-> FALSE, called_at |-> 0, alone_at |-> -1]

NoResult ==
    [status |-> "none", users |-> {}, groups |-> {}, subgroups |-> {},
     permissions |-> <<>>]

InitQs ==
    [kind |-> "none", name |-> UnknownName, cutoff |-> NoCutoff,
     paths |-> {}, rpaths |-> {}, users |-> {}, subgroups |-> {},
     seen |-> {}, refreshed_at |-> -1, result |-> NoResult]

\* The locals of a BackgroundThread outside its calls.  staged are the edges
\* changed in the session and not yet committed; edges_db records what the
\* query of the call saw, iteration what the present iteration of run() has
\* completed and raised, gauged what it had when the gauge was last set, ran the function that returned last, caller
\* whether the function was called from run.
NoIteration == [done |-> <<>>, raised |-> "none"]

InitBloc ==
    [now |-> 0, edges |-> <<>>, staged |-> {}, edges_db |-> EdgeView(EmptyDb),
     ran |-> "none", caller |-> "none", iteration |-> NoIteration,
     gauged |-> NoIteration]

NoGauge == -1   \* the gauge has not been set

\* op is the function applied last, secret the Secret it started from, data
\* the dict of to_dict, back the Secret of from_dict, all the dict of
\* get_all_secrets.
NoCall == [op |-> "none", secret |-> <<>>, data |-> <<>>, back |-> <<>>, all |-> {}]

\* No background thread has run and no secret function has been applied.
InitBackground ==
    /\ mail = <<>>
    /\ bloc = [b \in Backgrounds |-> InitBloc]
    /\ gauge = [b \in Backgrounds |-> NoGauge]
    /\ plugins = <<>>
    /\ call = NoCall

TypeOK ==
    /\ now \in 0..MaxTime
    /\ lock \in Threads \cup {NoThread}
    /\ store.checkpoint \in 0..MaxCounter
    /\ db.counter.count \in 0..MaxCounter
    /\ \A t \in Refreshers : res[t].outcome \in {"none", "unchanged", "error", "installed"}
    /\ \A q \in Queriers : qs[q].result.status \in {"none", "ok", "KeyError", "TypeError"}

\* ------------------------------------------------------------------------
\* The environment: time passes, the data changes
\* ------------------------------------------------------------------------
Tick ==
    /\ now < MaxTime
    /\ now' = now + 1
    /\ UNCHANGED <<db, store, lock, pc, loc, res, qs, ver, bgvars>>

\* Counter.incr(session, "updates") at time t.
CounterIncr(c, t) == [exists |-> TRUE, count |-> c.count + 1, last_modified |-> t]

Toggle(S, x) == IF x \in S THEN S \ {x} ELSE S \cup {x}

\* The changes a transaction makes here: flip a membership row's active
\* flag, enable or disable a group or a user.
EdgeMutations(d) ==
    {[d EXCEPT !.edges = (d.edges \ {r}) \cup {[r EXCEPT !.active = ~r.active]}] : r \in d.edges}

Mutations(d) ==
    EdgeMutations(d)
    \cup {[d EXCEPT !.groups_enabled = Toggle(d.groups_enabled, g)] : g \in d.groups}
    \cup {[d EXCEPT !.users_enabled = Toggle(d.users_enabled, u)] : u \in d.users}

\* A committed change of the data increments the counter.
DbWrite ==
    /\ db.counter.count < MaxCounter
    /\ \E d \in Mutations(db) :
          db' = [d EXCEPT !.counter = CounterIncr(db.counter, now)]
    /\ UNCHANGED <<now, store, lock, pc, loc, res, qs, ver, bgvars>>

\* The same, for a change to a membership row only.
DbWriteEdge ==
    /\ db.counter.count < MaxCounter
    /\ \E d \in EdgeMutations(db) :
          db' = [d EXCEPT !.counter = CounterIncr(db.counter, now)]
    /\ UNCHANGED <<now, store, lock, pc, loc, res, qs, ver, bgvars>>

\* ------------------------------------------------------------------------
\* GroupGraph.update_from_db, one step per database read and per assignment
\* ------------------------------------------------------------------------
Return(t, outcome) ==
    /\ pc' = [pc EXCEPT ![t] = "idle"]
    /\ loc' = [loc EXCEPT ![t] = InitLoc]
    /\ res' = [res EXCEPT ![t].outcome = outcome]

UCall(t) ==
    /\ pc[t] = "idle"
    /\ pc' = [pc EXCEPT ![t] = "checkpoint"]
    /\ res' = [res EXCEPT ![t] =
                 [InitRes EXCEPT !.called_at = now,
                                 !.alone_at =
                                    IF \A t2 \in Refreshers \ {t} : pc[t2] = "idle"
                                    THEN db.counter.count ELSE -1]]
    /\ UNCHANGED <<db, now, store, lock, loc, qs, ver, bgvars>>

\* checkpoint, checkpoint_time = self._get_checkpoint(session)
UGetCheckpoint(t) ==
    /\ pc[t] = "checkpoint"
    /\ loc' = [loc EXCEPT ![t].checkpoint = _get_checkpoint(db)[1],
                          ![t].checkpoint_time = _get_checkpoint(db)[2]]
    /\ pc' = [pc EXCEPT ![t] = "compare"]
    /\ UNCHANGED <<db, now, store, lock, res, qs, ver, bgvars>>

\* Faulty variant of CheckpointUnchanged: skips only when the counter is behind.
CheckpointUnchanged_behind(checkpoint, current) == checkpoint < current

\* if checkpoint == self.checkpoint: return
CheckpointUnchanged(checkpoint, current) == checkpoint = current

UCompare(t) ==
    /\ pc[t] = "compare"
    /\ IF CheckpointUnchanged(loc[t].checkpoint, store.checkpoint)
       THEN Return(t, "unchanged")
       ELSE /\ pc' = [pc EXCEPT ![t] = "nodes"]
            /\ UNCHANGED <<loc, res>>
    /\ UNCHANGED <<db, now, store, lock, qs, ver, bgvars>>

\* self._get_nodes_from_db(session)
UGetNodes(t) ==
    /\ pc[t] = "nodes"
    /\ loc' = [loc EXCEPT ![t].nodes = _get_nodes_from_db(db)]
    /\ pc' = [pc EXCEPT ![t] = "edges"]
    /\ UNCHANGED <<db, now, store, lock, res, qs, ver, bgvars>>

NamesOfType(nodes, type) == {n[2] : n \in {x \in nodes : x[1] = type}}

\* Faulty variant of UGetEdges: the graph is put into the store as soon as
\* it is built, before the metadata is read.
UGetEdges_inplace(t) ==
    /\ pc[t] = "edges"
    /\ \E G \in DiGraphs(loc[t].nodes, _get_edges_from_db(db, now)) :
          /\ loc' = [loc EXCEPT ![t].new_graph = G,
                                ![t].rgraph = Reverse(G),
                                ![t].users = NamesOfType(G.nodes, "User"),
                                ![t].groups = NamesOfType(G.nodes, "Group"),
                                ![t].edges_db = EdgeView(db),
                                ![t].edges_now = now]
          /\ store' = [store EXCEPT !._graph = G]
    /\ res' = [res EXCEPT ![t].wrote = TRUE]
    /\ pc' = [pc EXCEPT ![t] = "user_metadata"]
    /\ UNCHANGED <<db, now, lock, qs, ver, bgvars>>

\* new_graph, rgraph, users and groups from the nodes read before and the
\* edges read now.
UGetEdges(t) ==
    /\ pc[t] = "edges"
    /\ \E G \in DiGraphs(loc[t].nodes, _get_edges_from_db(db, now)) :
          loc' = [loc EXCEPT ![t].new_graph = G,
                             ![t].rgraph = Reverse(G),
                             ![t].users = NamesOfType(G.nodes, "User"),
                             ![t].groups = NamesOfType(G.nodes, "Group"),
                             ![t].edges_db = EdgeView(db),
                             ![t].edges_now = now]
    /\ pc' = [pc EXCEPT ![t] = "user_metadata"]
    /\ UNCHANGED <<db, now, store, lock, res, qs, ver, bgvars>>

UGetUserMetadata(t) ==
    /\ pc[t] = "user_metadata"
    /\ loc' = [loc EXCEPT ![t].user_metadata = _get_user_metadata(db)]
    /\ pc' = [pc EXCEPT ![t] = "permissions_metadata"]
    /\ UNCHANGED <<db, now, store, lock, res, qs, ver, bgvars>>

UGetPermissionsMetadata(t) ==
    /\ pc[t] = "permissions_metadata"
    /\ \E pm \in _get_permissions_metadata(db) :
          loc' = [loc EXCEPT ![t].permissions_metadata = pm]
    /\ pc' = [pc EXCEPT ![t] = "group_metadata"]
    /\ UNCHANGED <<db, now, store, lock, res, qs, ver, bgvars>>

\* Faulty variant of UGetGroupMetadata: the checkpoint to install is read
\* again at the end of the load.
UGetGroupMetadata_recheckpoint(t) ==
    /\ pc[t] = "group_metadata"
    /\ LET r == _get_group_metadata(db, loc[t].permissions_metadata)
       IN  loc' = [loc EXCEPT ![t].group_metadata = r.group_metadata,
                              ![t].permissions_metadata = r.permissions_metadata,
                              ![t].checkpoint = _get_checkpoint(db)[1],
                              ![t].checkpoint_time = _get_checkpoint(db)[2]]
    /\ pc' = [pc EXCEPT ![t] = "lock"]
    /\ UNCHANGED <<db, now, store, lock, res, qs, ver, bgvars>>

\* self._get_group_metadata(session, permissions_metadata)
UGetGroupMetadata(t) ==
    /\ pc[t] = "group_metadata"
    /\ LET r == _get_group_metadata(db, loc[t].permissions_metadata)
       IN  loc' = [loc EXCEPT ![t].group_metadata = r.group_metadata,
                              ![t].permissions_metadata = r.permissions_metadata]
    /\ pc' = [pc EXCEPT ![t] = "lock"]
    /\ UNCHANGED <<db, now, store, lock, res, qs, ver, bgvars>>

\* The positions at which the call is waiting for the database.
ReadPcs ==
    {"checkpoint", "nodes", "edges", "user_metadata", "permissions_metadata",
     "group_metadata"}

\* A database read raises (OperationalError, timeout): the exception leaves
\* update_from_db, its locals are dropped.
UFail(t) ==
    /\ pc[t] \in ReadPcs
    /\ Return(t, "error")
    /\ UNCHANGED <<db, now, store, lock, qs, ver, bgvars>>

\* Faulty variant of LockFree: the lock never makes anyone wait.
LockFree_unguarded(t) == TRUE

\* with self.lock:
LockFree(t) == lock = NoThread \/ lock = t

UAcquire(t) ==
    /\ pc[t] = "lock"
    /\ LockFree(t)
    /\ lock' = t
    /\ pc' = [pc EXCEPT ![t] = "set__graph"]
    /\ UNCHANGED <<db, now, store, loc, res, qs, ver, bgvars>>

\* The nine assignments, in the order of the code.
InstallOrder ==
    <<"_graph", "_rgraph", "checkpoint", "checkpoint_time", "users", "groups",
      "user_metadata", "group_metadata", "permissions_metadata">>

\* The value update_from_db assigns to each field.
Bundle(l) ==
    [_graph |-> l.new_graph, _rgraph |-> l.rgraph, users |-> l.users,
     groups |-> l.groups, checkpoint |-> l.checkpoint,
     checkpoint_time |-> l.checkpoint_time, user_metadata |-> l.user_metadata,
     group_metadata |-> l.group_metadata,
     permissions_metadata |-> l.permissions_metadata]

TrackedFields == {"_graph", "_rgraph", "permissions_metadata"}

\* self.<field> = <local>; leaving the with block after the last one.
UAssign(t) ==
    /\ \E i \in 1..Len(InstallOrder) :
          /\ pc[t] = "set_" \o InstallOrder[i]
          /\ store' = [store EXCEPT ![InstallOrder[i]] = Bundle(loc[t])[InstallOrder[i]]]
          /\ ver' = IF InstallOrder[i] \in TrackedFields
                    THEN [ver EXCEPT ![InstallOrder[i]] = loc[t]]
                    ELSE ver
          /\ IF i < Len(InstallOrder)
             THEN /\ pc' = [pc EXCEPT ![t] = "set_" \o InstallOrder[i + 1]]
                  /\ res' = [res EXCEPT ![t].wrote = TRUE]
                  /\ UNCHANGED <<lock, loc>>
             ELSE /\ lock' = NoThread
                  /\ pc' = [pc EXCEPT ![t] = "idle"]
                  /\ loc' = [loc EXCEPT ![t] = InitLoc]
                  /\ res' = [res EXCEPT ![t].outcome = "installed", ![t].wrote = TRUE]
    /\ UNCHANGED <<db, now, qs, bgvars>>

\* ------------------------------------------------------------------------
\* get_group_details / get_user_details, one step per read of the store
\* ------------------------------------------------------------------------
QueryKinds == {"group", "user"}

\* group = ("Group", groupname) / user = ("User", username)
Origin(kind, name) == IF kind = "group" THEN GroupNode(name) ELSE UserNode(name)

\* Faulty variant of PathNames: the path is listed from the node found back
\* to the origin.
PathNames_reversed(path) == [i \in 1..Len(path) |-> path[Len(path) + 1 - i][2]]

\* [elem[1] for elem in path]
PathNames(path) == [i \in 1..Len(path) |-> path[i][2]]

\* The time at which the last update_from_db call that has returned normally
\* began, -1 when there is none (or another call is under way).
LastRefreshAt ==
    IF \E t \in Refreshers : pc[t] # "idle" THEN -1
    ELSE LET done == {t \in Refreshers : res[t].outcome \in {"unchanged", "installed"}}
         IN  IF done = {} THEN -1
             ELSE CHOOSE m \in {res[t].called_at : t \in done} :
                     \A t \in done : res[t].called_at <= m

\* Faulty variant of Entry: the name is taken from the first node of the
\* path, the origin, instead of from the node found.
Entry_origin(node, path, role) ==
    [name |-> path[1][2], path |-> PathNames(path), distance |-> Len(path) - 1,
     role |-> role]

\* One value of the result dicts (rolename is GROUP_EDGE_ROLES[role]).
Entry(node, path, role) ==
    [name |-> node[2], path |-> PathNames(path), distance |-> Len(path) - 1,
     role |-> role]

\* self._graph[group][path[1]]["role"]: path[1] is the second node.
MemberRoleEdge(group, path) == <<group, path[2]>>

\* Faulty variant of ParentRoleEdge: the edge next to the origin, path[0] to
\* path[1].
ParentRoleEdge_origin(path, parent) == <<path[1], path[2]>>

\* self._rgraph[path[-2]][parent]["role"]: path[-2] is the node before parent.
ParentRoleEdge(path, parent) == <<path[Len(path) - 1], parent>>

QCall(q, kind, name, cutoff) ==
    /\ pc[q] = "idle"
    /\ qs' = [qs EXCEPT ![q] = [InitQs EXCEPT !.kind = kind, !.name = name,
                                              !.cutoff = cutoff,
                                              !.refreshed_at = LastRefreshAt]]
    /\ pc' = [pc EXCEPT ![q] = "lock"]
    /\ UNCHANGED <<db, now, store, lock, loc, res, ver, bgvars>>

\* with self.lock:
QAcquire(q) ==
    /\ pc[q] = "lock"
    /\ LockFree(q)
    /\ lock' = q
    /\ pc' = [pc EXCEPT ![q] = IF qs[q].kind = "group" THEN "paths" ELSE "rpaths"]
    /\ UNCHANGED <<db, now, store, loc, res, qs, ver, bgvars>>

\* An exception leaves the call; the with block releases the lock.
QRaise(q, err) ==
    /\ qs' = [qs EXCEPT ![q].result = [NoResult EXCEPT !.status = err]]
    /\ lock' = NoThread
    /\ pc' = [pc EXCEPT ![q] = "done"]

\* paths = single_source_shortest_path(self._graph, group, cutoff)
QPaths(q) ==
    /\ pc[q] = "paths"
    /\ \E r \in single_source_shortest_path(store._graph,
                    Origin(qs[q].kind, qs[q].name), qs[q].cutoff) :
          IF r.err # "ok" THEN QRaise(q, r.err)
          ELSE /\ qs' = [qs EXCEPT ![q].paths = r.paths,
                                   ![q].seen = @ \cup {ver._graph}]
               /\ pc' = [pc EXCEPT ![q] = "rpaths"]
               /\ UNCHANGED lock
    /\ UNCHANGED <<db, now, store, loc, res, ver, bgvars>>

\* rpaths = single_source_shortest_path(self._rgraph, group or user, cutoff)
QRPaths(q) ==
    /\ pc[q] = "rpaths"
    /\ \E r \in single_source_shortest_path(store._rgraph,
                    Origin(qs[q].kind, qs[q].name), qs[q].cutoff) :
          IF r.err # "ok" THEN QRaise(q, r.err)
          ELSE /\ qs' = [qs EXCEPT ![q].rpaths = r.paths,
                                   ![q].seen = @ \cup {ver._rgraph}]
               /\ pc' = [pc EXCEPT ![q] = IF qs[q].kind = "group" THEN "members"
                                           ELSE "parents"]
               /\ UNCHANGED lock
    /\ UNCHANGED <<db, now, store, loc, res, ver, bgvars>>

\* The entries of a paths dict other than the origin's.
Others(paths, origin) == {p \in paths : p[1] # origin}

\* for member, path in paths.iteritems(): fills data["users"] and
\* data["subgroups"].
QMembers(q) ==
    /\ pc[q] = "members"
    /\ LET group == Origin(qs[q].kind, qs[q].name)
           found == Others(qs[q].paths, group)
           edge(p) == MemberRoleEdge(group, p[2])
           entry(p) == Entry(p[1], p[2], EdgeRole(store._graph, edge(p)[1], edge(p)[2]))
           ofKind(k) == {entry(p) : p \in {x \in found : MEMBER_TYPE_MAP(x[1][1]) = k}}
       IN  IF found # {} /\ store._graph.none THEN QRaise(q, "TypeError")
           ELSE IF \E p \in found : ~HasEdge(store._graph, edge(p)[1], edge(p)[2])
           THEN QRaise(q, "KeyError")
           ELSE /\ qs' = [qs EXCEPT ![q].users = ofKind("users"),
                                    ![q].subgroups = ofKind("subgroups"),
                                    ![q].seen = @ \cup {ver._graph}]
                /\ pc' = [pc EXCEPT ![q] = "parents"]
                /\ UNCHANGED lock
    /\ UNCHANGED <<db, now, store, loc, res, ver, bgvars>>

\* Faulty variant of Flatten: the loop stops after the first ancestor, only
\* its permissions are reported.
Flatten_first(lists) == IF lists = <<>> THEN <<>> ELSE Head(lists)

RECURSIVE Flatten(_)
Flatten(lists) == IF lists = <<>> THEN <<>> ELSE Head(lists) \o Flatten(Tail(lists))

\* The permissions entry of get_user_details for a MappedPermission.
PermissionOut(m) ==
    [permission |-> m.permission, argument |-> m.argument, groupname |-> m.groupname]

\* for parent, path in rpaths.iteritems(): fills the groups (data["groups"])
\* and, in get_user_details, permissions from self.permissions_metadata, a
\* defaultdict that stores every key it is asked for; the order of
\* permissions follows the iteration order of rpaths.  Then return.
QParents(q) ==
    /\ pc[q] = "parents"
    /\ LET origin == Origin(qs[q].kind, qs[q].name)
           found == Others(qs[q].rpaths, origin)
           edge(p) == ParentRoleEdge(p[2], p[1])
           entry(p) == Entry(p[1], p[2], EdgeRole(store._rgraph, edge(p)[1], edge(p)[2]))
           isUser == qs[q].kind = "user"
       IN  IF found # {} /\ store._rgraph.none
           THEN QRaise(q, "TypeError") /\ UNCHANGED store
           ELSE IF \E p \in found : ~HasEdge(store._rgraph, edge(p)[1], edge(p)[2])
           THEN QRaise(q, "KeyError") /\ UNCHANGED store
           ELSE \E order \in Orderings({p[1][2] : p \in found}) :
                /\ qs' = [qs EXCEPT
                     ![q].seen = @ \cup {ver._rgraph}
                                   \cup (IF isUser /\ found # {}
                                         THEN {ver.permissions_metadata} ELSE {}),
                     ![q].result =
                        [status |-> "ok",
                         users |-> qs[q].users,
                         subgroups |-> qs[q].subgroups,
                         groups |-> {entry(p) : p \in found},
                         permissions |->
                            IF isUser
                            THEN LET all == Flatten([i \in 1..Len(order) |->
                                        DefaultDictGet(store.permissions_metadata, order[i])])
                                 IN  [i \in 1..Len(all) |-> PermissionOut(all[i])]
                            ELSE <<>>]]
                /\ store' = IF isUser
                            THEN [store EXCEPT !.permissions_metadata =
                                    DefaultDictTouch(@, {p[1][2] : p \in found})]
                            ELSE store
                /\ lock' = NoThread
                /\ pc' = [pc EXCEPT ![q] = "done"]
    /\ UNCHANGED <<db, now, loc, res, ver, bgvars>>

\* The caller has the result (or the exception) and goes on.
QDone(q) ==
    /\ pc[q] = "done"
    /\ pc' = [pc EXCEPT ![q] = "idle"]
    /\ qs' = [qs EXCEPT ![q] = InitQs]
    /\ UNCHANGED <<db, now, store, lock, loc, res, ver, bgvars>>

\* ------------------------------------------------------------------------
\* Specification: a refresher and a querier
\* ------------------------------------------------------------------------
Init ==
    /\ db \in {EmptyDb, SeedDb}
    /\ now = 0
    /\ store = InitStore
    /\ lock = NoThread
    /\ pc = [t \in Threads |-> "idle"]
    /\ loc = [t \in Refreshers |-> InitLoc]
    /\ res = [t \in Refreshers |-> InitRes]
    /\ qs = [q \in Queriers |-> InitQs]
    /\ ver = [f \in TrackedFields |-> InitLoc]
    /\ InitBackground

\* The queries made while the store is being refreshed.
SpecQueries ==
    {<<"group", "g2", NoCutoff>>, <<"user", "u1", NoCutoff>>,
     <<"group", UnknownName, NoCutoff>>, <<"group", UnknownName, 0>>}

\* One refresher and one querier, while time passes and membership rows
\* change.
Next ==
    \/ Tick
    \/ DbWriteEdge
    \/ UCall("r1")
    \/ UGetCheckpoint("r1")
    \/ UCompare("r1")
    \/ UGetNodes("r1")
    \/ UGetEdges("r1")
    \/ UGetUserMetadata("r1")
    \/ UGetPermissionsMetadata("r1")
    \/ UGetGroupMetadata("r1")
    \/ UFail("r1")
    \/ UAcquire("r1")
    \/ UAssign("r1")
    \/ \E q \in Queriers : \E a \in SpecQueries : QCall(q, a[1], a[2], a[3])
    \/ \E q \in Queriers : QAcquire(q)
    \/ \E q \in Queriers : QPaths(q)
    \/ \E q \in Queriers : QRPaths(q)
    \/ \E q \in Queriers : QMembers(q)
    \/ \E q \in Queriers : QParents(q)
    \/ \E q \in Queriers : QDone(q)

Spec == Init /\ [][Next]_vars

\* ------------------------------------------------------------------------
\* Specification: one refresher while rows, groups and users change
\* ------------------------------------------------------------------------
NextLoad ==
    \/ Tick
    \/ DbWrite
    \/ UCall("r1")
    \/ UGetCheckpoint("r1")
    \/ UCompare("r1")
    \/ UGetNodes("r1")
    \/ UGetEdges("r1")
    \/ UGetUserMetadata("r1")
    \/ UGetPermissionsMetadata("r1")
    \/ UGetGroupMetadata("r1")
    \/ UFail("r1")
    \/ UAcquire("r1")
    \/ UAssign("r1")

SpecLoad == Init /\ [][NextLoad]_vars

\* ------------------------------------------------------------------------
\* Specification: several refreshers while membership rows change
\* ------------------------------------------------------------------------
NextRefresh ==
    \/ DbWriteEdge
    \/ \E t \in Refreshers : UCall(t)
    \/ \E t \in Refreshers : UGetCheckpoint(t)
    \/ \E t \in Refreshers : UCompare(t)
    \/ \E t \in Refreshers : UGetNodes(t)
    \/ \E t \in Refreshers : UGetEdges(t)
    \/ \E t \in Refreshers : UGetUserMetadata(t)
    \/ \E t \in Refreshers : UGetPermissionsMetadata(t)
    \/ \E t \in Refreshers : UGetGroupMetadata(t)
    \/ \E t \in Refreshers : UFail(t)
    \/ \E t \in Refreshers : UAcquire(t)
    \/ \E t \in Refreshers : UAssign(t)

SpecRefresh == Init /\ [][NextRefresh]_vars

\* ------------------------------------------------------------------------
\* Specification: the queries on every loaded graph over the names
\* ------------------------------------------------------------------------
\* The membership rows the groups can have when the users are those in
\* users: any other group or any user as a member, with any role, active
\* and without expiration.
TraversalRows(users) ==
    {EdgeRow(g, 1, m, r, TRUE, NoExpiration) :
        g \in GroupNames, m \in GroupNames, r \in Roles}
    \cup {EdgeRow(g, 0, m, r, TRUE, NoExpiration) :
        g \in GroupNames, m \in users, r \in Roles}

\* The user is named like no group, or like the group g1.
TraversalUserNames == {"u1", "g1"}

\* The grants: none; one group granted; both groups granted the same
\* permission; one group granted two permissions.
TraversalGrants ==
    {{},
     {GrantRow("ssh", "*", "g1", 0)},
     {GrantRow("ssh", "*", "g1", 0), GrantRow("ssh", "*", "g2", 0)},
     {GrantRow("ssh", "*", "g1", 0), GrantRow("sudo", "*", "g1", 0)}}

\* Databases with one user and every user and group enabled, no group a
\* member of itself and one membership row per (group, member).
TraversalDbs ==
    UNION {
        {[SeedDb EXCEPT !.users = {u}, !.users_enabled = {u},
                        !.edges = rows, !.grants = grants] :
            grants \in TraversalGrants,
            rows \in {R \in SUBSET TraversalRows({u}) :
                /\ \A r \in R : ~(r.member_type = 1 /\ r.member = r.group)
                /\ \A r1, r2 \in R :
                      (r1.group = r2.group /\ r1.member_type = r2.member_type
                       /\ r1.member = r2.member) => r1 = r2}} :
        u \in TraversalUserNames}

\* The locals of an update_from_db call that reads all of d at time t.
Loads(d, t) ==
    {[checkpoint |-> _get_checkpoint(d)[1],
      checkpoint_time |-> _get_checkpoint(d)[2],
      nodes |-> _get_nodes_from_db(d),
      new_graph |-> G, rgraph |-> Reverse(G),
      users |-> NamesOfType(G.nodes, "User"),
      groups |-> NamesOfType(G.nodes, "Group"),
      user_metadata |-> _get_user_metadata(d),
      group_metadata |-> _get_group_metadata(d, pm).group_metadata,
      permissions_metadata |-> _get_group_metadata(d, pm).permissions_metadata,
      edges_db |-> EdgeView(d), edges_now |-> t] :
        G \in DiGraphs(_get_nodes_from_db(d), _get_edges_from_db(d, t)),
        pm \in _get_permissions_metadata(d)}

\* GroupGraph.from_db on one of the databases.
\* A database that holds two active rows for the membership of u1 in g1,
\* one per role.
DuplicateDbs ==
    {[SeedDb EXCEPT !.edges = @ \cup {EdgeRow("g1", 0, "u1", r, TRUE, NoExpiration) :
                                        r \in Roles}]}

InitTraversal ==
    /\ db \in TraversalDbs \cup DuplicateDbs
    /\ now = 0
    /\ \E l \in Loads(db, now) :
          /\ store = Bundle(l)
          /\ ver = [f \in TrackedFields |-> l]
    /\ lock = NoThread
    /\ pc = [t \in Threads |-> "idle"]
    /\ loc = [t \in Refreshers |-> InitLoc]
    /\ res = [t \in Refreshers |-> InitRes]
    /\ qs = [q \in Queriers |-> InitQs]
    /\ InitBackground

NextTraversal ==
    \/ \E q \in Queriers : \E k \in QueryKinds : \E n \in Names : \E c \in Cutoffs :
          QCall(q, k, n, c)
    \/ \E q \in Queriers : QAcquire(q)
    \/ \E q \in Queriers : QPaths(q)
    \/ \E q \in Queriers : QRPaths(q)
    \/ \E q \in Queriers : QMembers(q)
    \/ \E q \in Queriers : QParents(q)
    \/ \E q \in Queriers : QDone(q)

SpecTraversal == InitTraversal /\ [][NextTraversal]_vars

\* A step of a query that has been called: the thread is running, and
\* nobody else takes the lock here.
QueryStep(q) == QAcquire(q) \/ QPaths(q) \/ QRPaths(q) \/ QMembers(q) \/ QParents(q)

\* The same, with every query thread scheduled until its call returns.
SpecTraversalFair == SpecTraversal /\ \A q \in Queriers : WF_vars(QueryStep(q))

\* ------------------------------------------------------------------------
\* Properties
\* ------------------------------------------------------------------------
Completed(q) == pc[q] = "done"
Answered(q) == pc[q] = "done" /\ qs[q].result.status = "ok"

\* The exception a query raises for a name that is not a node.
NotFound == "KeyError"

\* C1: every query reads the forward graph, the reverse graph and the
\* permissions metadata as assigned by one and the same load (or all as the
\* constructor left them), also while update_from_db is installing.
C1_OneSnapshotPerQuery == \A q \in Queriers : Cardinality(qs[q].seen) <= 1

\* A query holds a loaded graph and has the rest of the store still to
\* read, while the refresher waits to install a different load.
C1_Witness ==
    \E q \in Queriers :
        /\ pc[q] \in {"rpaths", "members", "parents"}
        /\ qs[q].seen # {} /\ InitLoc \notin qs[q].seen
        /\ pc["r1"] = "lock" /\ loc["r1"] \notin qs[q].seen

\* C2 (as claimed): a query for a name that is not a node of the snapshot
\* ends with the not-found exception, whatever the cutoff.
C2_Original ==
    \A q \in Queriers :
        (Completed(q) /\ Origin(qs[q].kind, qs[q].name) \notin store._graph.nodes)
            => qs[q].result.status = NotFound

\* The node at position i of the path of an entry of data[dict].
EntryNode(q, dict, e, i) ==
    IF i = 1 THEN Origin(qs[q].kind, qs[q].name)
    ELSE IF dict = "users" /\ i = Len(e.path) THEN UserNode(e.path[i])
    ELSE GroupNode(e.path[i])

\* The entry's role is the role group a gives its member b in the snapshot.
RoleIsOf(e, a, b) == HasEdge(store._graph, a, b) /\ e.role = EdgeRole(store._graph, a, b)

\* Members carry the role of the edge from the origin to the second node.
MembersHaveOriginRole(q) ==
    /\ \A e \in qs[q].result.users :
          RoleIsOf(e, EntryNode(q, "users", e, 1), EntryNode(q, "users", e, 2))
    /\ \A e \in qs[q].result.subgroups :
          RoleIsOf(e, EntryNode(q, "subgroups", e, 1), EntryNode(q, "subgroups", e, 2))

C4_Original == [][store.checkpoint' >= store.checkpoint]_vars

\* C5: a call whose token equals the store's checkpoint when it compares
\* them returns at once: no load follows and no field of the store changes.
C5_UnchangedCheckpointIsNoop ==
    [][\A t \in Refreshers :
        (pc[t] = "compare" /\ pc'[t] # "compare" /\ loc[t].checkpoint = store.checkpoint)
            => /\ store' = store
               /\ ver' = ver
               /\ pc'[t] = "idle"
               /\ loc'[t] = InitLoc]_vars

\* A call has returned without loading and the store holds a loaded snapshot.
C5_Witness ==
    /\ pc["r1"] = "idle" /\ res["r1"].outcome = "unchanged"
    /\ store.checkpoint > 0 /\ ~store._graph.none

\* C6: a call that a failing database read ends has assigned no field of the
\* store and assigns none; its locals are gone.
C6_FailedReadInstallsNothing ==
    [][\A t \in Refreshers :
        (pc[t] \in ReadPcs /\ pc'[t] = "idle")
            => /\ store' = store
               /\ ~res[t].wrote
               /\ ~res'[t].wrote
               /\ lock' = lock
               /\ loc'[t] = InitLoc]_vars

\* A load has failed after the data changed; the earlier snapshot is still
\* in the store.
C6_Witness ==
    /\ pc["r1"] = "idle" /\ res["r1"].outcome = "error"
    /\ ~store._graph.none
    /\ store.checkpoint # db.counter.count

\* The positions of update_from_db after the checkpoint is read and before
\* the last assignment is made.
Refreshing(t) == pc[t] \notin {"idle", "checkpoint"}

\* C7 (as claimed): no two calls are between reading the checkpoint and
\* installing at the same time.
C7_Original == \A t1, t2 \in Refreshers : (Refreshing(t1) /\ Refreshing(t2)) => t1 = t2

\* C8 (as claimed): while no snapshot has been installed, every query ends
\* with the not-found exception.
C8_Original ==
    \A q \in Queriers : (Completed(q) /\ store._graph.none) => qs[q].result.status = NotFound

\* C9: every edge of the installed graph comes from a membership row that,
\* when the edges were read, was active, had no expiration or one later than
\* the time of the read, and whose group and member were enabled.
C9_EdgesAreLiveRows ==
    \A e \in store._graph.edges :
        LET d == ver._graph.edges_db
        IN  \E r \in d.edges :
               /\ e = <<GroupNode(r.group), <<MemberKind(r.member_type), r.member>>, r.role>>
               /\ r.active
               /\ (r.expiration = NoExpiration \/ r.expiration > ver._graph.edges_now)
               /\ r.group \in d.groups_enabled
               /\ r.member \in (IF r.member_type = 1 THEN d.groups_enabled ELSE d.users_enabled)

\* The installed graph was loaded when an active row of an enabled group and
\* member had expired, and has no edge for that row.
C9_Witness ==
    /\ ~store._graph.none
    /\ LET d == ver._graph.edges_db
       IN  \E r \in d.edges :
              /\ r.active /\ r.expiration # NoExpiration
              /\ r.expiration <= ver._graph.edges_now
              /\ r.group \in d.groups_enabled
              /\ r.member \in (IF r.member_type = 1 THEN d.groups_enabled ELSE d.users_enabled)
              /\ ~HasEdge(store._graph, GroupNode(r.group),
                          <<MemberKind(r.member_type), r.member>>)

\* The path of some entry of the result goes over the membership row r.
UsesRow(result, r) ==
    \/ \E e \in result.users \cup result.subgroups : \E i \in 1..(Len(e.path) - 1) :
          e.path[i] = r.group /\ e.path[i + 1] = r.member
    \/ \E e \in result.groups : \E i \in 1..(Len(e.path) - 1) :
          e.path[i] = r.member /\ e.path[i + 1] = r.group

\* C10 (as claimed): a query called after an update_from_db call that began
\* when a row's expiration had passed does not go over that row.
C10_Original ==
    \A q \in Queriers : Answered(q) =>
        \A r \in db.edges :
            (r.active /\ r.expiration # NoExpiration /\ r.expiration <= qs[q].refreshed_at)
                => ~UsesRow(qs[q].result, r)

\* ------------------------------------------------------------------------
\* Permissions of a user
\* ------------------------------------------------------------------------
Occurrences(seq, x) == Cardinality({i \in 1..Len(seq) : seq[i] = x})

\* The names of the groups a get_user_details result reports.
AncestorNames(result) == {e.name : e \in result.groups}

\* C11: the permissions list of get_user_details holds, for every ancestor
\* group it reports and every grant made directly to that group, exactly
\* one entry tagged with that group's name, and nothing else: an entry per
\* grant, not per permission, so a permission granted to two ancestors is
\* listed twice, and an ancestor without grants adds nothing.
C11_OneEntryPerAncestorGrant ==
    \A q \in Queriers :
        (Answered(q) /\ qs[q].kind = "user") =>
            LET result == qs[q].result
                granted(a) == {g \in db.grants : g.group = a}
                out(g) == [permission |-> g.permission, argument |-> g.argument,
                           groupname |-> g.group]
                same(g) == {h \in granted(g.group) : out(h) = out(g)}
            IN  /\ \A i \in 1..Len(result.permissions) :
                      /\ result.permissions[i].groupname \in AncestorNames(result)
                      /\ \E g \in granted(result.permissions[i].groupname) :
                            out(g) = result.permissions[i]
                /\ \A a \in AncestorNames(result) : \A g \in granted(a) :
                      Occurrences(result.permissions, out(g)) = Cardinality(same(g))

\* A user below two groups that hold the same permission gets it twice, once
\* per group, and one of the groups reported may hold no grant at all.
C11_Witness ==
    \E q \in Queriers :
        /\ Answered(q) /\ qs[q].kind = "user"
        /\ Len(qs[q].result.permissions) = 2
        /\ qs[q].result.permissions[1].permission = qs[q].result.permissions[2].permission
        /\ qs[q].result.permissions[1].groupname # qs[q].result.permissions[2].groupname

\* ------------------------------------------------------------------------
\* The origin is not part of its own result
\* ------------------------------------------------------------------------
\* C12: whatever the snapshot (a membership cycle through G, a user named
\* like G) and the cutoff, no map returned by get_group_details(G) has an
\* entry for the group G itself: groups and subgroups have no entry named
\* G, every entry lies at least one hop away, and an entry named G in users
\* is the user of that name, reached over a membership edge.
C12_NoEntryForOrigin ==
    \A q \in Queriers :
        (Answered(q) /\ qs[q].kind = "group") =>
            LET result == qs[q].result
            IN  /\ \A e \in result.groups \cup result.subgroups : e.name # qs[q].name
                /\ \A e \in result.groups \cup result.subgroups \cup result.users :
                      e.distance >= 1
                /\ \A e \in result.users :
                      e.name = qs[q].name =>
                          HasEdge(store._graph,
                                  EntryNode(q, "users", e, Len(e.path) - 1),
                                  UserNode(e.name))

\* G lies on a membership cycle and has the user named G among its members.
C12_Witness ==
    \E q \in Queriers :
        /\ Answered(q) /\ qs[q].kind = "group"
        /\ \E e \in qs[q].result.users : e.name = qs[q].name
        /\ \E e \in qs[q].result.subgroups :
              \E f \in qs[q].result.groups : e.name = f.name

\* ------------------------------------------------------------------------
\* Reachability and distance in a graph, by hop count
\* ------------------------------------------------------------------------
\* The nodes at most n hops from a node of S.
RECURSIVE Within(_, _, _)
Within(G, S, n) ==
    IF n = 0 THEN S
    ELSE LET W == Within(G, S, n - 1)
         IN  W \cup UNION {Adj(G, v) : v \in W}

Reachable(G, o) == Within(G, {o}, Cardinality(G.nodes))

\* The least number of hops from o to a node v reachable from o.
Distance(G, o, v) ==
    CHOOSE n \in 0..Cardinality(G.nodes) :
        /\ v \in Within(G, {o}, n)
        /\ n = 0 \/ v \notin Within(G, {o}, n - 1)

\* The node an entry of data[dict] stands for.
NodeOf(dict, e) == IF dict = "users" THEN UserNode(e.name) ELSE GroupNode(e.name)

\* The graph data[dict] is filled from.
GraphOf(dict) == IF dict = "groups" THEN store._rgraph ELSE store._graph

ResultDicts(kind) == IF kind = "group" THEN {"users", "subgroups", "groups"} ELSE {"groups"}

\* The nodes other than the origin that belong in data[dict] without cutoff.
Expected(q, dict) ==
    {v \in Reachable(GraphOf(dict), Origin(qs[q].kind, qs[q].name))
            \ {Origin(qs[q].kind, qs[q].name)} :
        MEMBER_TYPE_MAP(v[1]) = (IF dict = "groups" THEN "subgroups" ELSE dict)}

\* C13: every entry of get_group_details(G, cutoff=k) has distance <= k and
\* is an entry of the result without cutoff with the same distance, that is
\* a node reachable from G at that least number of hops; without cutoff
\* every node reachable from G has its entry.
C13_CutoffBoundsDistance ==
    \A q \in Queriers :
        (Answered(q) /\ qs[q].kind = "group") =>
            \A dict \in ResultDicts("group") :
                /\ \A e \in qs[q].result[dict] :
                      /\ qs[q].cutoff # NoCutoff => e.distance <= qs[q].cutoff
                      /\ NodeOf(dict, e) \in Expected(q, dict)
                      /\ e.distance = Distance(GraphOf(dict), GroupNode(qs[q].name),
                                               NodeOf(dict, e))
                /\ qs[q].cutoff = NoCutoff =>
                      Expected(q, dict) = {NodeOf(dict, e) : e \in qs[q].result[dict]}

\* A cutoff that cuts: an entry one hop away is returned and a node two hops
\* away is left out.
C13_Witness ==
    \E q \in Queriers :
        /\ Answered(q) /\ qs[q].kind = "group" /\ qs[q].cutoff = 1
        /\ qs[q].result.subgroups # {}
        /\ \E v \in Expected(q, "users") :
              /\ Distance(store._graph, GroupNode(qs[q].name), v) = 2
              /\ qs[q].result.users = {}

\* C14: the path of every entry starts at the queried origin, ends at the
\* entry's node, joins consecutive nodes by an edge of the graph traversed
\* (the forward graph for users and subgroups, the reverse graph for
\* groups), and the entry's distance is the hop count of that path, which
\* is the least hop count from the origin to the node.
C14_PathsAreShortest ==
    \A q \in Queriers :
        Answered(q) =>
            \A dict \in ResultDicts(qs[q].kind) : \A e \in qs[q].result[dict] :
                /\ Len(e.path) >= 2
                /\ e.path[1] = qs[q].name
                /\ e.path[Len(e.path)] = e.name
                /\ \A i \in 1..(Len(e.path) - 1) :
                      HasEdge(GraphOf(dict), EntryNode(q, dict, e, i),
                              EntryNode(q, dict, e, i + 1))
                /\ e.distance = Len(e.path) - 1
                /\ e.distance = Distance(GraphOf(dict), Origin(qs[q].kind, qs[q].name),
                                         NodeOf(dict, e))

\* A user that is a direct member and also a member of a subgroup is
\* reported one hop away; the subgroup is on a cycle with the origin.
C14_Witness ==
    \E q \in Queriers :
        /\ Answered(q) /\ qs[q].kind = "group"
        /\ \E e \in qs[q].result.users :
              /\ e.distance = 1
              /\ \E sub \in qs[q].result.subgroups :
                    /\ HasEdge(store._graph, GroupNode(sub.name), UserNode(e.name))
                    /\ sub.distance = 1
                    /\ \E anc \in qs[q].result.groups : anc.name = sub.name

\* ------------------------------------------------------------------------
\* Locking of queries
\* ------------------------------------------------------------------------
\* The query is between its first traversal and its return.
Traversing(q) == pc[q] \in {"paths", "rpaths", "members", "parents"}

\* C15 (as claimed): a query holds the store's lock only to obtain the
\* snapshot, not while it traverses, so that a refresh waiting to install
\* is never kept waiting by a traversal.
C15_Original ==
    \A q \in Queriers : Traversing(q) => lock # q

\* ------------------------------------------------------------------------
\* Convergence of the store on the persisted data
\* ------------------------------------------------------------------------
\* The store holds what one load of all of the present database assigns.
StoreIsCurrent ==
    \E t \in 0..now : \E l \in Loads(db, t) :
        \A f \in DOMAIN store : store[f] = Bundle(l)[f]

\* No update_from_db call is under way.
Quiescent == \A t \in Refreshers : pc[t] = "idle"

\* The call of t began when no other was under way, the data has not changed
\* since, and the call has returned normally.
FurtherCallDone(t) ==
    /\ pc[t] = "idle"
    /\ res[t].outcome \in {"unchanged", "installed"}
    /\ db.counter.exists
    /\ res[t].alone_at = db.counter.count

\* C16: a load installs the checkpoint it read before it read the data, so
\* a store whose checkpoint equals the counter (the case in which the next
\* call does not reload) holds a snapshot of the present data; and once the
\* data has stopped changing, one further update_from_db call that begins
\* after all earlier calls have returned leaves the store with the present
\* counter as its checkpoint and the present data as its snapshot.
C16_ConvergesOnPersistedState ==
    /\ (lock \notin Refreshers /\ db.counter.exists
        /\ store.checkpoint = db.counter.count) => StoreIsCurrent
    /\ \A t \in Refreshers :
          (Quiescent /\ FurtherCallDone(t)) =>
              (store.checkpoint = db.counter.count /\ StoreIsCurrent)

\* The data changed after the first install; a call that began after the
\* change, with no other call under way, has reloaded.
C16_Witness ==
    \E t \in Refreshers :
        /\ Quiescent /\ FurtherCallDone(t)
        /\ res[t].outcome = "installed"
        /\ db.counter.count > 1
        /\ \E t2 \in Refreshers \ {t} : res[t2].outcome = "installed"

\* ------------------------------------------------------------------------
\* Forward and reverse graph
\* ------------------------------------------------------------------------
\* A snapshot is installed: update_from_db has assigned the graphs at least
\* once and is not in the middle of its assignments.
SnapshotInstalled == ~store._graph.none /\ lock \notin Refreshers

\* C17: whenever a snapshot is installed, the reverse graph is the transpose
\* of the forward graph: the same nodes, and an edge b -> a with a role
\* exactly where the forward graph has a -> b with that role.
C17_ReverseIsTranspose ==
    SnapshotInstalled =>
        /\ ~store._rgraph.none
        /\ store._rgraph.nodes = store._graph.nodes
        /\ \A a, b \in store._graph.nodes : \A r \in Roles :
              <<a, b, r>> \in store._graph.edges <=> <<b, a, r>> \in store._rgraph.edges
        /\ \A e \in store._graph.edges \cup store._rgraph.edges :
              e[1] \in store._graph.nodes /\ e[2] \in store._graph.nodes

\* A second snapshot, with edges, has replaced the first.
C17_Witness ==
    /\ SnapshotInstalled
    /\ store._graph.edges # {}
    /\ store.checkpoint > 1

\* ------------------------------------------------------------------------
\* Membership cycles
\* ------------------------------------------------------------------------
\* Some node of G is reachable from itself.
HasCycle(G) ==
    \E v \in G.nodes : v \in Within(G, Adj(G, v), Cardinality(G.nodes))

\* On a snapshot with a membership cycle a query for a node of the snapshot
\* ends without an exception and has one entry per name in each map, on a
\* path that passes no node twice, and without cutoff one entry for every
\* reachable node.
VisitedOnce ==
    \A q \in Queriers :
        (/\ Completed(q)
         /\ HasCycle(store._graph)
         /\ Origin(qs[q].kind, qs[q].name) \in store._graph.nodes) =>
            /\ qs[q].result.status = "ok"
            /\ \A dict \in ResultDicts(qs[q].kind) :
                  /\ \A e, f \in qs[q].result[dict] : e.name = f.name => e = f
                  /\ \A e \in qs[q].result[dict] : \A i, j \in 1..Len(e.path) :
                        i # j => EntryNode(q, dict, e, i) # EntryNode(q, dict, e, j)
                  /\ qs[q].cutoff = NoCutoff =>
                        \A v \in Expected(q, dict) :
                            Cardinality({e \in qs[q].result[dict] : NodeOf(dict, e) = v}) = 1

\* C18: on a snapshot with a membership cycle every query that is called
\* returns, and it returns without an exception, reporting each node
\* reachable from the origin exactly once.
C18_CyclesAreVisitedOnce ==
    /\ []VisitedOnce
    /\ \A q \in Queriers :
          (pc[q] = "lock" /\ HasCycle(store._graph)) ~> (pc[q] = "done")

\* A user query that climbs into a cycle of two groups and reports both.
C18_Witness ==
    \E q \in Queriers :
        /\ Completed(q) /\ qs[q].kind = "user" /\ qs[q].cutoff = NoCutoff
        /\ qs[q].result.status = "ok"
        /\ HasCycle(store._rgraph)
        /\ Cardinality(qs[q].result.groups) = 2

\* ------------------------------------------------------------------------
\* Group metadata
\* ------------------------------------------------------------------------
\* The (permission, argument) pairs of the grants made directly to group g.
GrantedPairs(g) ==
    {[permission |-> r.permission, argument |-> r.argument] :
        r \in {x \in db.grants : x.group = g}}

ListItems(list) == {list[i] : i \in 1..Len(list)}

\* C19 (as claimed): after an installing refresh of the present data,
\* group_metadata maps every enabled group to the (permission, argument)
\* pairs of exactly the grants made directly to it, the pairs that
\* permissions_metadata lists for the group; a group without grants maps to
\* the empty list.
C19_Original ==
    (SnapshotInstalled /\ db.counter.exists /\ store.checkpoint = db.counter.count) =>
        \A g \in db.groups_enabled :
            /\ g \in DictKeys(store.group_metadata)
            /\ ListItems(DefaultDictGet(store.group_metadata, g)) = GrantedPairs(g)
            /\ GrantedPairs(g) =
                  {[permission |-> m.permission, argument |-> m.argument] :
                      m \in ListItems(DefaultDictGet(store.permissions_metadata, g))}

\* ------------------------------------------------------------------------
\* Rows that disagree about a role
\* ------------------------------------------------------------------------
\* Two rows the loader reads for the same group and member, with two roles.
ConflictingRows ==
    \E r1, r2 \in db.edges :
        /\ EdgeRowLoaded(db, now, r1) /\ EdgeRowLoaded(db, now, r2)
        /\ r1.group = r2.group /\ r1.member_type = r2.member_type
        /\ r1.member = r2.member
        /\ r1.role # r2.role

\* C20 (as claimed): when two active rows give one (group, member) two
\* roles, the refresh completes and the role of the edge is chosen by a
\* deterministic tie-break: every load of these rows builds the same graph.
C20_Original ==
    ConflictingRows =>
        /\ ~store._graph.none
        /\ \A l1, l2 \in Loads(db, now) : l1.new_graph = l2.new_graph

\* ------------------------------------------------------------------------
\* Queries and the installed snapshot
\* ------------------------------------------------------------------------
\* C21 (as claimed): no step of get_group_details or get_user_details
\* changes a field of the store, the key sets of the metadata maps included.
C21_Original ==
    [][(\E q \in Queriers : QueryStep(q)) => store' = store]_vars

\* ------------------------------------------------------------------------
\* Self-consistency of a snapshot
\* ------------------------------------------------------------------------
\* The node is a user or group that is enabled in the database.
EnabledNode(n) ==
    IF n[1] = "User" THEN n[2] \in db.users_enabled ELSE n[2] \in db.groups_enabled

\* C22 (as claimed): in an installed snapshot both endpoints of every edge
\* are nodes, users and groups are the names of the User and Group nodes,
\* and every node is a user or group that was enabled when it was read (here:
\* that is enabled now, the data not having changed since the load began).
C22_Original ==
    SnapshotInstalled =>
        /\ \A e \in store._graph.edges :
              e[1] \in store._graph.nodes /\ e[2] \in store._graph.nodes
        /\ store.users = NamesOfType(store._graph.nodes, "User")
        /\ store.groups = NamesOfType(store._graph.nodes, "Group")
        /\ (db.counter.exists /\ store.checkpoint = db.counter.count) =>
              \A n \in store._graph.nodes : EnabledNode(n)

\* ------------------------------------------------------------------------
\* BackgroundThread.expire_edges, one step per query, notification and commit
\* ------------------------------------------------------------------------
\* The primary key of a GroupEdge row.
EdgeKey(r) == <<r.group, r.member_type, r.member>>

\* Faulty variant of ExpiredEdges: an edge that expires at the very moment of
\* the run is not pulled.
ExpiredEdges_strict(d, t) ==
    {r \in d.edges :
        /\ r.group \in d.groups_enabled
        /\ r.active
        /\ r.expiration < t /\ r.expiration # NoExpiration}

\* The rows of the query "Pull the expired edges" at time t.
ExpiredEdges(d, t) ==
    {r \in d.edges :
        /\ r.group \in d.groups_enabled
        /\ r.active
        /\ r.expiration <= t /\ r.expiration # NoExpiration}

\* A notification, issued by thread b about the edge with key k.
Notification(kind, k, b) == [kind |-> kind, edge |-> k, by |-> b]

\* notify_edge_expiration(self.settings, session, edge): one notification
\* about the edge.
notify_edge_expiration(k, b) == Append(mail, Notification("expiration", k, b))

\* Where a function of the thread returns to.
ReturnTo(b, next) == IF bloc[b].caller = "run" THEN next ELSE "idle"

\* The locals of a function of the thread when it is called: now =
\* datetime.utcnow(); what belongs to run() stays.
Called(b) ==
    [InitBloc EXCEPT !.now = now, !.caller = bloc[b].caller,
                     !.iteration = bloc[b].iteration, !.gauged = bloc[b].gauged]

\* What the iteration of run() has completed when the stage returns.
StageDone(b, stage) ==
    IF bloc[b].caller = "run" THEN [bloc[b].iteration EXCEPT !.done = Append(@, stage)]
    ELSE bloc[b].iteration

\* expire_edges(session) is called, by itself or by run(); now =
\* datetime.utcnow()
ECall(b) ==
    /\ pc[b] \in {"idle", "expire_edges"}
    /\ pc' = [pc EXCEPT ![b] = "expire_query"]
    /\ bloc' = [bloc EXCEPT ![b] = Called(b)]
    /\ UNCHANGED <<db, now, graphvars, mail, gauge, plugins, call>>

\* edges = session.query(GroupEdge).filter(...).all(), in the order the
\* database returns.
EQuery(b) ==
    /\ pc[b] = "expire_query"
    /\ \E order \in Orderings({EdgeKey(r) : r \in ExpiredEdges(db, bloc[b].now)}) :
          bloc' = [bloc EXCEPT ![b].edges = order, ![b].edges_db = EdgeView(db)]
    /\ pc' = [pc EXCEPT ![b] = "expire_notify"]
    /\ UNCHANGED <<db, now, graphvars, mail, gauge, plugins, call>>

\* for edge in edges: notify_edge_expiration(...)
ENotify(b) ==
    /\ pc[b] = "expire_notify"
    /\ bloc[b].edges # <<>>
    /\ mail' = notify_edge_expiration(Head(bloc[b].edges), b)
    /\ pc' = [pc EXCEPT ![b] = "expire_commit"]
    /\ UNCHANGED <<db, now, graphvars, bloc, gauge, plugins, call>>

\* The rows of d with the row of key k made inactive.
Deactivated(d, k) ==
    [d EXCEPT !.edges = {IF EdgeKey(r) = k THEN [r EXCEPT !.active = FALSE] ELSE r :
                            r \in d.edges}]

\* edge.active = False; session.commit()
ECommit(b) ==
    /\ pc[b] = "expire_commit"
    /\ db' = Deactivated(db, Head(bloc[b].edges))
    /\ bloc' = [bloc EXCEPT ![b].edges = Tail(@)]
    /\ pc' = [pc EXCEPT ![b] = "expire_notify"]
    /\ UNCHANGED <<now, graphvars, mail, gauge, plugins, call>>

\* The loop is over, expire_edges returns.
EReturn(b) ==
    /\ pc[b] = "expire_notify"
    /\ bloc[b].edges = <<>>
    /\ bloc' = [bloc EXCEPT ![b].ran = "expire_edges",
                            ![b].iteration = StageDone(b, "expire_edges")]
    /\ pc' = [pc EXCEPT ![b] = ReturnTo(b, "expire_nonauditors")]
    /\ UNCHANGED <<db, now, graphvars, mail, gauge, plugins, call>>

\* The expirations a row can have: none, or a time up to one past the last.
Expirations == {NoExpiration} \cup (0..(MaxTime + 1))

\* Databases with the membership of u1 in g1 and of g1 in g2, whatever their
\* expirations, the first active or not, g2 enabled or not.
ExpireDbs ==
    {[SeedDb EXCEPT !.groups_enabled = enabled,
                    !.edges = {EdgeRow("g1", 0, "u1", 1, a, e1),
                               EdgeRow("g2", 1, "g1", 0, TRUE, e2)}] :
        enabled \in {{"g1", "g2"}, {"g1"}}, a \in BOOLEAN,
        e1 \in Expirations, e2 \in Expirations}

InitExpire ==
    /\ db \in ExpireDbs
    /\ now = 0
    /\ store = InitStore
    /\ lock = NoThread
    /\ pc = [t \in Threads |-> "idle"]
    /\ loc = [t \in Refreshers |-> InitLoc]
    /\ res = [t \in Refreshers |-> InitRes]
    /\ qs = [q \in Queriers |-> InitQs]
    /\ ver = [f \in TrackedFields |-> InitLoc]
    /\ InitBackground

\* Several servers run expire_edges against one database while time passes.
NextExpire ==
    \/ Tick
    \/ \E b \in Backgrounds : ECall(b)
    \/ \E b \in Backgrounds : EQuery(b)
    \/ \E b \in Backgrounds : ENotify(b)
    \/ \E b \in Backgrounds : ECommit(b)
    \/ \E b \in Backgrounds : EReturn(b)

SpecExpire == InitExpire /\ [][NextExpire]_vars

\* ------------------------------------------------------------------------
\* Expiry of edges
\* ------------------------------------------------------------------------
\* Some notification by thread b about the edge with key k has been issued.
NotifiedBy(b, k) ==
    \E i \in 1..Len(mail) : mail[i] = Notification("expiration", k, b)

\* The row was, when thread b pulled the expired edges, an active edge of an
\* enabled group with an expiration not later than the run's now.
WasExpired(b, r) ==
    /\ r \in bloc[b].edges_db.edges
    /\ r.active /\ r.group \in bloc[b].edges_db.groups_enabled
    /\ r.expiration # NoExpiration /\ r.expiration <= bloc[b].now

\* expire_edges of thread b has returned.
Expired(b) == pc[b] = "idle" /\ bloc[b].ran = "expire_edges"

\* Once expire_edges has returned, every edge that was expired when it was
\* pulled is inactive and has been notified.
ExpiredAreInactive ==
    \A b \in Backgrounds : Expired(b) =>
        \A r \in bloc[b].edges_db.edges : WasExpired(b, r) =>
            /\ NotifiedBy(b, EdgeKey(r))
            /\ \A x \in db.edges : EdgeKey(x) = EdgeKey(r) => ~x.active

\* A step changes a row only if it is the commit of a thread for an edge
\* that was expired when the thread pulled it, which the thread has
\* notified, and it only makes the row inactive.
OnlyExpiredAreChanged ==
    \A r \in db.edges \ db'.edges :
        \E b \in Backgrounds :
            /\ pc[b] = "expire_commit"
            /\ EdgeKey(r) = Head(bloc[b].edges)
            /\ \E x \in bloc[b].edges_db.edges : EdgeKey(x) = EdgeKey(r) /\ WasExpired(b, x)
            /\ NotifiedBy(b, EdgeKey(r))
            /\ db'.edges = (db.edges \ {r}) \cup {[r EXCEPT !.active = FALSE]}

\* C23: after expire_edges has completed, no edge of an enabled group that
\* was active with an expiration <= the run's now is still active, a
\* notification was issued for each such edge before it was deactivated, and
\* edges without expiration or with a later one are left as they were.
C23_ExpiredEdgesAreDeactivated ==
    /\ []ExpiredAreInactive
    /\ [][OnlyExpiredAreChanged]_vars

\* A run that has deactivated one edge and left an edge that expires later.
C23_Witness ==
    \E b \in Backgrounds :
        /\ Expired(b)
        /\ \E r \in bloc[b].edges_db.edges : WasExpired(b, r)
        /\ \E r \in db.edges \cap bloc[b].edges_db.edges :
              r.active /\ r.expiration > bloc[b].now

\* C26 (as claimed): when several BackgroundThreads run expire_edges against
\* one database, the expiration of an edge is notified at most once (no edge
\* becomes active again here, so an edge expires once).
C26_Original ==
    \A i, j \in 1..Len(mail) :
        (mail[i].kind = "expiration" /\ mail[j].kind = "expiration"
         /\ mail[i].edge = mail[j].edge) => i = j

\* ------------------------------------------------------------------------
\* Secret.to_dict and Secret.from_dict
\* ------------------------------------------------------------------------
\* A datetime.timedelta in its normal form, days and seconds of the day (or
\* None), and the timedelta that timedelta(days=d) makes.
Timedelta(days, seconds) == [none |-> FALSE, days |-> days, seconds |-> seconds]
NoTimedelta == [none |-> TRUE, days |-> 0, seconds |-> 0]
TimedeltaOfDays(d) == Timedelta(d, 0)

\* A Group object, and None in its place.
GroupObject(g) == [none |-> FALSE, id |-> GroupId(g), name |-> g]
NoGroup == [none |-> TRUE, id |-> "", name |-> ""]

\* Group.get(session, name=...) and Group.get(session, pk).
GroupGetByName(d, name) == IF name \in d.groups THEN GroupObject(name) ELSE NoGroup
GroupGetByPk(d, pk) ==
    IF \E g \in d.groups : GroupId(g) = pk
    THEN GroupObject(CHOOSE g \in d.groups : GroupId(g) = pk)
    ELSE NoGroup

\* Secret.__init__: the ten attributes.
SecretOf(name, owner, rotate, notes, new) ==
    [name |-> name, distribution |-> <<"prod">>, owner |-> owner, rotate |-> rotate,
     history |-> 1, notes |-> notes, risk_level |-> 1, risk_info |-> "", uses |-> "",
     new |-> new]

SecretNames == {"s1", "s2"}

\* How long a secret is valid: not set, no time, whole days, a day and a
\* part of a day.
Rotations == {NoTimedelta, Timedelta(0, 0), Timedelta(1, 0), Timedelta(1, 1)}

\* The secrets to_dict is applied to; the group "zz" has been deleted.
Secrets ==
    {SecretOf(n, GroupObject(g), r, "", new) :
        n \in {"s1"}, g \in {"g1", "g2", UnknownName}, r \in Rotations, new \in BOOLEAN}

\* data["rotate"].days if data["rotate"] is not None else None; a number of
\* days or None.
RotateToDays(rotate) == [none |-> rotate.none, days |-> rotate.days]

\* Secret.to_dict: a copy of __dict__ with rotate as days and owner as name.
to_dict(secret) ==
    [secret EXCEPT !.rotate = RotateToDays(secret.rotate), !.owner = secret.owner.name]

\* Secret.from_dict: owner looked up by name, then by key; rotate as
\* timedelta(days=...).
from_dict(d, data) ==
    LET tmp == GroupGetByName(d, data.owner)
        owner == IF tmp.none THEN GroupGetByPk(d, data.owner) ELSE tmp
    IN  [data EXCEPT !.owner = owner,
                     !.rotate = IF data.rotate.none THEN NoTimedelta
                                ELSE TimedeltaOfDays(data.rotate.days)]

\* s.to_dict()
ToDict(secret) ==
    /\ call' = [NoCall EXCEPT !.op = "to_dict", !.secret = secret, !.data = to_dict(secret)]
    /\ UNCHANGED <<db, now, pc, graphvars, mail, bloc, gauge, plugins>>

\* Secret.from_dict(session, data) for the dict made before.
FromDict ==
    /\ call.op = "to_dict"
    /\ call' = [call EXCEPT !.op = "from_dict", !.back = from_dict(db, call.data)]
    /\ UNCHANGED <<db, now, pc, graphvars, mail, bloc, gauge, plugins>>

\* ------------------------------------------------------------------------
\* get_all_secrets
\* ------------------------------------------------------------------------
\* Faulty variant of DictUpdate: a name that is already in the dict keeps
\* its secret.
DictUpdate_keep(ret, other) ==
    ret \cup {kv \in other : kv[1] \notin DictKeys(ret)}

\* dict.update: the entries of other replace those of ret with the same key.
DictUpdate(ret, other) ==
    {kv \in ret : kv[1] \notin DictKeys(other)} \cup other

\* ret = {}; for plugin in get_plugins(): ret.update(plugin.get_secrets(session))
RECURSIVE get_all_secrets(_)
get_all_secrets(list) ==
    IF list = <<>> THEN {}
    ELSE DictUpdate(get_all_secrets(SubSeq(list, 1, Len(list) - 1)), list[Len(list)])

\* The secrets a plugin can hold under a name: two that differ in their notes.
PluginSecrets(n) == {SecretOf(n, GroupObject("g1"), NoTimedelta, notes, FALSE) :
                        notes \in {"", "copy"}}

\* What get_secrets of a plugin can return: a dict keyed by name, as a set of
\* <<name, secret>>.
PluginDicts ==
    {d \in SUBSET (UNION {{<<n, x>> : x \in PluginSecrets(n)} : n \in SecretNames}) :
        \A kv1, kv2 \in d : kv1[1] = kv2[1] => kv1 = kv2}

\* The registries: up to MaxPlugins plugins.
PluginLists == UNION {[1..k -> PluginDicts] : k \in 0..MaxPlugins}

GetAllSecrets ==
    /\ call' = [NoCall EXCEPT !.op = "get_all_secrets", !.all = get_all_secrets(plugins)]
    /\ UNCHANGED <<db, now, pc, graphvars, mail, bloc, gauge, plugins>>

InitSecrets ==
    /\ db = SeedDb
    /\ now = 0
    /\ store = InitStore
    /\ lock = NoThread
    /\ pc = [t \in Threads |-> "idle"]
    /\ loc = [t \in Refreshers |-> InitLoc]
    /\ res = [t \in Refreshers |-> InitRes]
    /\ qs = [q \in Queriers |-> InitQs]
    /\ ver = [f \in TrackedFields |-> InitLoc]
    /\ mail = <<>>
    /\ bloc = [b \in Backgrounds |-> InitBloc]
    /\ gauge = [b \in Backgrounds |-> NoGauge]
    /\ plugins \in PluginLists
    /\ call = NoCall

NextSecrets ==
    \/ \E secret \in Secrets : ToDict(secret)
    \/ FromDict
    \/ GetAllSecrets

SpecSecrets == InitSecrets /\ [][NextSecrets]_vars

\* C24 (as claimed): for a Secret whose owner group exists, from_dict of its
\* to_dict is a Secret equal to it in every field, also when rotate is None
\* and when rotate is not a whole number of days.
C24_Original ==
    (call.op = "from_dict" /\ call.secret.owner.name \in db.groups) =>
        call.back = call.secret

\* C25 (as claimed): every secret that some plugin returns is in the result
\* of get_all_secrets under its name, whatever names the plugins share.
C25_Original ==
    call.op = "get_all_secrets" =>
        \A i \in 1..Len(plugins) : \A kv \in plugins[i] : kv \in call.all

\* The last plugin of the registry that returns a secret under name n.
LastWith(n) ==
    CHOOSE i \in 1..Len(plugins) :
        /\ n \in DictKeys(plugins[i])
        /\ \A j \in (i + 1)..Len(plugins) : n \notin DictKeys(plugins[j])

\* C25 (amended): the result of get_all_secrets has one entry for every name
\* that some plugin returns and no other; under a name that several plugins
\* return it holds the secret of the last of them in the order of
\* get_plugins(), so every secret is in the result unless a later plugin
\* returns another secret under its name.
C25_LastPluginWins ==
    call.op = "get_all_secrets" =>
        /\ DictKeys(call.all) = UNION {DictKeys(plugins[i]) : i \in 1..Len(plugins)}
        /\ \A kv1, kv2 \in call.all : kv1[1] = kv2[1] => kv1 = kv2
        /\ \A kv \in call.all : kv \in plugins[LastWith(kv[1])]

\* Two plugins return different secrets under one name; the result holds
\* the second plugin's.
C25_Witness ==
    /\ call.op = "get_all_secrets"
    /\ Len(plugins) = 2
    /\ \E kv1 \in plugins[1] : \E kv2 \in plugins[2] :
          kv1[1] = kv2[1] /\ kv1 # kv2 /\ kv2 \in call.all /\ kv1 \notin call.all

\* ------------------------------------------------------------------------
\* BackgroundThread.expire_nonauditors
\* ------------------------------------------------------------------------
\* settings.nonauditor_expiration_days, in units of the clock.
nonauditor_expiration_days == 2

\* APPROVER_ROLE_INDICIES among Roles: the manager.
APPROVER_ROLE_INDICIES == {1}

\* get_audited_groups(session): the enabled groups that are audited.
get_audited_groups(d) == d.audited \cap d.groups_enabled

\* group.my_members(): the direct members over active edges that have not
\* expired at time t.
my_members(d, t, g) == {r \in d.edges : r.group = g /\ EdgeRowLoaded(d, t, r)}

\* user_has_permission(session, member, PERMISSION_AUDITOR)
user_has_permission(d, member) == member \in d.auditors

\* Faulty variant of AlreadyExpiring: the test of the expiration is left
\* out, every approver without the permission is flagged in every run.
AlreadyExpiring_never(expiration, limit) == FALSE

\* if edge.expiration and edge.expiration < now + exp_days: continue
AlreadyExpiring(expiration, limit) ==
    expiration # NoExpiration /\ expiration < limit

\* The edges a run with now = t goes on to change when it reads the members
\* at time tq: those of approvers of audited groups who are no auditors and
\* whose membership does not yet expire before t + exp_days.
Nonauditors(d, t, tq) ==
    {r \in UNION {my_members(d, tq, g) : g \in get_audited_groups(d)} :
        /\ r.member_type = 0
        /\ r.role \in APPROVER_ROLE_INDICIES
        /\ ~user_has_permission(d, r.member)
        /\ ~AlreadyExpiring(r.expiration, t + nonauditor_expiration_days)}

\* notify_nonauditor_flagged(settings, session, edge): one notification
\* about the edge.
notify_nonauditor_flagged(k, b) == Append(mail, Notification("nonauditor", k, b))

\* expire_nonauditors(session) is called, by itself or by run(); now =
\* datetime.utcnow(), which is later than the now of the run before.
NCall(b) ==
    /\ pc[b] \in {"idle", "expire_nonauditors"}
    /\ bloc[b].ran = "expire_nonauditors" => bloc[b].now < now
    /\ pc' = [pc EXCEPT ![b] = "nonauditors_graph"]
    /\ bloc' = [bloc EXCEPT ![b] = Called(b)]
    /\ UNCHANGED <<db, now, graphvars, mail, gauge, plugins, call>>

\* graph = Graph(); graph.update_from_db(session): a whole update_from_db of
\* the graph of the process, which no other thread uses here.
NUpdateGraph(b) ==
    /\ pc[b] = "nonauditors_graph"
    /\ lock = NoThread
    /\ IF CheckpointUnchanged(_get_checkpoint(db)[1], store.checkpoint)
       THEN UNCHANGED <<store, ver>>
       ELSE \E l \in Loads(db, now) :
               /\ store' = Bundle(l)
               /\ ver' = [f \in TrackedFields |-> l]
    /\ pc' = [pc EXCEPT ![b] = "nonauditors_scan"]
    /\ UNCHANGED <<db, now, lock, loc, res, qs, mail, bloc, gauge, plugins, call>>

\* The loops over get_audited_groups(session) and group.my_members(): the
\* edges that pass the three tests, in the order of the loops.
NScan(b) ==
    /\ pc[b] = "nonauditors_scan"
    /\ \E order \in Orderings({EdgeKey(r) : r \in Nonauditors(db, bloc[b].now, now)}) :
          bloc' = [bloc EXCEPT ![b].edges = order, ![b].edges_db = EdgeView(db)]
    /\ pc' = [pc EXCEPT ![b] = "nonauditors_flag"]
    /\ UNCHANGED <<db, now, graphvars, mail, gauge, plugins, call>>

\* edge.expiration = now + exp_days; edge.add(session);
\* notify_nonauditor_flagged(settings, session, edge)
NFlag(b) ==
    /\ pc[b] = "nonauditors_flag"
    /\ bloc[b].edges # <<>>
    /\ mail' = notify_nonauditor_flagged(Head(bloc[b].edges), b)
    /\ bloc' = [bloc EXCEPT ![b].staged = @ \cup {Head(bloc[b].edges)},
                            ![b].edges = Tail(@)]
    /\ UNCHANGED <<db, now, pc, graphvars, gauge, plugins, call>>

\* The rows of d with the expiration of the rows of the keys set to e.
Expiring(d, keys, e) ==
    [d EXCEPT !.edges = {IF EdgeKey(r) \in keys THEN [r EXCEPT !.expiration = e] ELSE r :
                            r \in d.edges}]

\* session.commit() after the loops; expire_nonauditors returns.
NCommit(b) ==
    /\ pc[b] = "nonauditors_flag"
    /\ bloc[b].edges = <<>>
    /\ db' = Expiring(db, bloc[b].staged, bloc[b].now + nonauditor_expiration_days)
    /\ bloc' = [bloc EXCEPT ![b].ran = "expire_nonauditors",
                            ![b].iteration = StageDone(b, "expire_nonauditors")]
    /\ pc' = [pc EXCEPT ![b] = ReturnTo(b, "emails")]
    /\ UNCHANGED <<now, graphvars, mail, gauge, plugins, call>>

\* Databases with the user u1 a member of g1 and of g2, with any role and
\* expiration, any of the groups audited, g2 enabled or not, u1 an auditor or
\* not.
NonauditorDbs ==
    {[audited |-> audited, auditors |-> auditors] @@
     [SeedDb EXCEPT !.groups_enabled = enabled,
                    !.edges = {EdgeRow("g1", 0, "u1", r1, TRUE, e1),
                               EdgeRow("g2", 0, "u1", 1, TRUE, e2)}] :
        audited \in SUBSET GroupNames, auditors \in SUBSET UserNames,
        enabled \in {{"g1", "g2"}, {"g1"}}, r1 \in Roles,
        e1 \in {NoExpiration} \cup (0..(MaxTime + nonauditor_expiration_days + 1)),
        e2 \in {NoExpiration, MaxTime + nonauditor_expiration_days + 1}}

InitNonauditors ==
    /\ db \in NonauditorDbs
    /\ now = 0
    /\ store = InitStore
    /\ lock = NoThread
    /\ pc = [t \in Threads |-> "idle"]
    /\ loc = [t \in Refreshers |-> InitLoc]
    /\ res = [t \in Refreshers |-> InitRes]
    /\ qs = [q \in Queriers |-> InitQs]
    /\ ver = [f \in TrackedFields |-> InitLoc]
    /\ InitBackground

\* One server runs expire_nonauditors again and again while time passes.
NextNonauditors ==
    \/ Tick
    \/ NCall("b1")
    \/ NUpdateGraph("b1")
    \/ NScan("b1")
    \/ NFlag("b1")
    \/ NCommit("b1")

SpecNonauditors == InitNonauditors /\ [][NextNonauditors]_vars

\* ------------------------------------------------------------------------
\* Expiry of approvers who are no auditors
\* ------------------------------------------------------------------------
\* The number of notifications of a kind about the edge with key k.
Notifications(kind, k) ==
    Cardinality({i \in 1..Len(mail) : mail[i].kind = kind /\ mail[i].edge = k})

\* The row of the next state with the key of row r.
RowAfter(r) == CHOOSE x \in db'.edges : EdgeKey(x) = EdgeKey(r)

\* A step changes a row only if it is the commit of a run, the row is the
\* membership of a user who is an approver of an enabled audited group and
\* has not the auditor permission, and the row has no expiration or one not
\* earlier than the run's now + nonauditor_expiration_days; the step sets the
\* expiration to that time, which is not later than the one before, and the
\* run has sent a notification about the edge.
OnlyNonauditorsAreChanged ==
    \A r \in db.edges : RowAfter(r) # r =>
        \E b \in Backgrounds :
            LET limit == bloc[b].now + nonauditor_expiration_days
            IN  /\ pc[b] = "nonauditors_flag" /\ bloc[b].edges = <<>>
                /\ r.member_type = 0 /\ r.active
                /\ r.role \in APPROVER_ROLE_INDICIES
                /\ r.group \in db.audited /\ r.group \in db.groups_enabled
                /\ r.member \notin db.auditors
                /\ r.expiration = NoExpiration \/ r.expiration >= limit
                /\ RowAfter(r) = [r EXCEPT !.expiration = limit]
                /\ \E i \in 1..Len(mail) :
                      mail[i] = Notification("nonauditor", EdgeKey(r), b)

Stages == <<"expire_edges", "expire_nonauditors", "emails", "prune", "commit">>

\* The positions of the thread inside the try block.
TryPositions ==
    {"session", "expire_edges", "expire_query", "expire_notify", "expire_commit",
     "expire_nonauditors", "nonauditors_graph", "nonauditors_scan",
     "nonauditors_flag", "emails", "prune", "commit", "close", "gauge"}

\* session = Session(): an iteration begins.
RSession(b) ==
    /\ pc[b] = "session"
    /\ bloc' = [bloc EXCEPT ![b] = [InitBloc EXCEPT !.caller = "run",
                                                      !.gauged = bloc[b].gauged]]
    /\ pc' = [pc EXCEPT ![b] = "expire_edges"]
    /\ UNCHANGED <<db, now, graphvars, mail, gauge, plugins, call>>

\* A stage of run() that is not followed further here returns.
RStage(b, stage, next) ==
    /\ pc[b] = stage
    /\ bloc' = [bloc EXCEPT ![b].iteration = StageDone(b, stage)]
    /\ pc' = [pc EXCEPT ![b] = next]
    /\ UNCHANGED <<db, now, graphvars, mail, gauge, plugins, call>>

\* process_async_emails(self.settings, session, datetime.utcnow())
REmails(b) == RStage(b, "emails", "prune")

\* prune_old_traces(session)
RPrune(b) == RStage(b, "prune", "commit")

\* session.commit()
RCommit(b) == RStage(b, "commit", "close")

\* session.close()
RClose(b) ==
    /\ pc[b] = "close"
    /\ pc' = [pc EXCEPT ![b] = "gauge"]
    /\ UNCHANGED <<db, now, graphvars, bgvars>>

\* stats.set_gauge("successful-background-run", value)
set_gauge(b, value) ==
    /\ gauge' = [gauge EXCEPT ![b] = value]
    /\ bloc' = [bloc EXCEPT ![b].gauged = bloc[b].iteration]

\* stats.set_gauge("successful-background-run", 1) at the end of the try
\* block.
RGauge(b) ==
    /\ pc[b] = "gauge"
    /\ set_gauge(b, 1)
    /\ pc' = [pc EXCEPT ![b] = "sleep"]
    /\ UNCHANGED <<db, now, graphvars, mail, plugins, call>>

\* A statement of the try block raises: the database is away
\* (OperationalError) or anything else goes wrong.
RRaise(b) ==
    /\ pc[b] \in TryPositions
    /\ \E e \in {"OperationalError", "Exception"} :
          bloc' = [bloc EXCEPT ![b].iteration.raised = e]
    /\ pc' = [pc EXCEPT ![b] = "except"]
    /\ UNCHANGED <<db, now, graphvars, mail, gauge, plugins, call>>

\* Faulty variant of AfterExcept: the OperationalError is raised again
\* too.
AfterExcept_reraise(raised) == "dead"

\* Where the thread goes after the handler: except OperationalError falls
\* through to the sleep, the bare except ends in raise.
AfterExcept(raised) == IF raised = "OperationalError" THEN "sleep" ELSE "dead"

\* except OperationalError: ...; except: ... -- both set the gauge to 0.
RExcept(b) ==
    /\ pc[b] = "except"
    /\ set_gauge(b, 0)
    /\ pc' = [pc EXCEPT ![b] = AfterExcept(bloc[b].iteration.raised)]
    /\ UNCHANGED <<db, now, graphvars, mail, plugins, call>>

\* sleep(60): time passes, then the next iteration.
RSleep(b) ==
    /\ pc[b] = "sleep"
    /\ now < MaxTime
    /\ now' = now + 1
    /\ pc' = [pc EXCEPT ![b] = "session"]
    /\ UNCHANGED <<db, store, lock, loc, res, qs, ver, bgvars>>

\* The thread b1 has been started and is at the top of its loop.
InitRun ==
    /\ db \in NonauditorDbs
    /\ now = 0
    /\ store = InitStore
    /\ lock = NoThread
    /\ pc = [t \in Threads |-> IF t = "b1" THEN "session" ELSE "idle"]
    /\ loc = [t \in Refreshers |-> InitLoc]
    /\ res = [t \in Refreshers |-> InitRes]
    /\ qs = [q \in Queriers |-> InitQs]
    /\ ver = [f \in TrackedFields |-> InitLoc]
    /\ mail = <<>>
    /\ bloc = [b \in Backgrounds |->
                  IF b = "b1" THEN [InitBloc EXCEPT !.caller = "run"] ELSE InitBloc]
    /\ gauge = [b \in Backgrounds |-> NoGauge]
    /\ plugins = <<>>
    /\ call = NoCall

NextRun ==
    \/ Tick
    \/ RSession("b1")
    \/ ECall("b1")
    \/ EQuery("b1")
    \/ ENotify("b1")
    \/ ECommit("b1")
    \/ EReturn("b1")
    \/ NCall("b1")
    \/ NUpdateGraph("b1")
    \/ NScan("b1")
    \/ NFlag("b1")
    \/ NCommit("b1")
    \/ REmails("b1")
    \/ RPrune("b1")
    \/ RCommit("b1")
    \/ RClose("b1")
    \/ RGauge("b1")
    \/ RRaise("b1")
    \/ RExcept("b1")
    \/ RSleep("b1")

SpecRun == InitRun /\ [][NextRun]_vars

\* ------------------------------------------------------------------------
\* The gauge of the background loop
\* ------------------------------------------------------------------------
\* The gauge is 1 only if, when it was set, the iteration had completed
\* every stage in order and raised nothing; it is 0 only if the iteration had
\* raised.
GaugeTellsTheIteration ==
    \A b \in Backgrounds :
        /\ gauge[b] = 1 => bloc[b].gauged = [done |-> Stages, raised |-> "none"]
        /\ gauge[b] = 0 => bloc[b].gauged.raised # "none"

\* The step after an exception sets the gauge to 0; after an OperationalError
\* the thread is at the sleep, after any other exception it has ended.  The
\* step after the sleep begins the next iteration, and a thread that has
\* ended stays so and leaves the gauge alone.
HandlersAndLoop ==
    \A b \in Backgrounds :
        /\ (pc[b] = "except" /\ pc'[b] # "except") =>
              /\ gauge'[b] = 0
              /\ bloc[b].iteration.raised = "OperationalError" => pc'[b] = "sleep"
              /\ bloc[b].iteration.raised # "OperationalError" => pc'[b] = "dead"
        /\ (pc[b] = "sleep" /\ pc'[b] # "sleep") => pc'[b] = "session"
        /\ pc[b] = "dead" => (pc'[b] = "dead" /\ gauge'[b] = gauge[b])
        /\ gauge'[b] # gauge[b] => pc[b] \in {"gauge", "except"}

\* C28: an iteration of run() that fails with an OperationalError sets the
\* gauge to 0 and the loop goes on with the next iteration after the sleep;
\* any other exception sets the gauge to 0 and ends the thread; the gauge is
\* set to 1 only after an iteration in which edge expiry, non-auditor expiry,
\* email processing, trace pruning and the commit all completed.
C28_GaugeFollowsTheIteration ==
    /\ []GaugeTellsTheIteration
    /\ [][HandlersAndLoop]_vars

\* The first iteration failed with an OperationalError and left the gauge at
\* 0; the loop went on, and the second iteration has flagged an edge,
\* completed every stage and is about to set the gauge to 1.
C28_Witness ==
    /\ now > 0
    /\ gauge["b1"] = 0
    /\ bloc["b1"].gauged.raised = "OperationalError"
    /\ pc["b1"] = "gauge"
    /\ bloc["b1"].iteration = [done |-> Stages, raised |-> "none"]
    /\ \E i \in 1..Len(mail) : mail[i].kind = "nonauditor"

====
